---------------------------- MODULE Spec2Model ----------------------------
(***************************************************************************)
(* The rules engine of clssck/TTT_ML (game_logic.py): an N x N board on    *)
(* which two players alternate and the first run of win_length equal       *)
(* markers in a row, a column or a diagonal wins.                          *)
(*                                                                         *)
(* The program plays on a 12 x 12 board with runs of 5.  The model keeps   *)
(* every loop bound symbolic in BOARD_SIZE and win_length and explores a   *)
(* board small enough to enumerate: BOARD_SIZE x BOARD_SIZE with           *)
(* win_length drawn from MinWinLength..BOARD_SIZE, so that both a board    *)
(* that can end in a draw (win_length = BOARD_SIZE) and a board on which   *)
(* a run can be longer than win_length and a line holds several windows    *)
(* (win_length < BOARD_SIZE) are covered.                                  *)
(***************************************************************************)
EXTENDS Integers, Sequences, FiniteSets, TLC

\* Scaled-down board size (game_logic.py sets BOARD_SIZE = 12).
BOARD_SIZE == 3

\* Smallest run length explored (game_logic.py sets WIN_LENGTH = 5).
MinWinLength == 2

\* How far outside [0, BOARD_SIZE) the coordinates passed to make_move reach.
OutOfRange == 1

\* Scaled-down window geometry in pixels (tic_tac_toe_12x12_pygame.py sets
\* SQUARE_SIZE = 50, MARGIN_TOP = 70, MARGIN_LEFT = 50, MARGIN_BOTTOM = 50,
\* MARGIN_RIGHT = 20).  A square keeps more than one pixel, so that the
\* strict comparisons of the click test leave every column reachable.
SQUARE_SIZE == 2
MARGIN_TOP == 1
MARGIN_LEFT == 1
MARGIN_BOTTOM == 1
MARGIN_RIGHT == 1

\* Frames the winning-line animation takes (1.0 / ANIMATION_SPEED = 20 in
\* the program); animation_progress is counted in steps of ANIMATION_SPEED.
AnimationFrames == 2

VARIABLES
    board,           \* state.board: board[r][c] \in CellValue
    current_player,  \* state.current_player
    winner,          \* state.winner: a Player or None
    game_over,       \* state.game_over
    win_length,      \* self.win_length, fixed at construction
    last,            \* the last call made on the engine and what it returned
    accepted,        \* make_move calls that returned True since the last reset
    \* main() of tic_tac_toe_12x12_pygame.py:
    game_mode,            \* "pvp" or "pve"; "none" when the engine runs alone
    pc,                   \* where the main loop stands
    is_human_turn,        \* computed once per frame, before the events
    ai_move,              \* what ai_player.get_move(game) returned
    win_line_start_pos,   \* << >> stands for None
    win_line_end_pos,
    animating_win_line,
    animation_progress,
    caller                \* which place of main() made the last engine call

engine_vars ==
    <<board, current_player, winner, game_over, win_length, last, accepted>>

gui_vars ==
    <<game_mode, pc, is_human_turn, ai_move, win_line_start_pos,
      win_line_end_pos, animating_win_line, animation_progress, caller>>

vars == <<engine_vars, gui_vars>>

Player == {"X", "O"}
CellValue == {"X", "O", " "}
None == "None"

\* range(n) of Python.
range(n) == 0 .. (n - 1)

\* The coordinates a caller may pass: in range, negative, and too large.
Coords == (0 - OutOfRange) .. (BOARD_SIZE - 1 + OutOfRange)

\* GameState(): the default board, X to move, no winner, not over.
EmptyBoard == [r \in range(BOARD_SIZE) |-> [c \in range(BOARD_SIZE) |-> " "]]

-----------------------------------------------------------------------------
(* Read-only queries                                                       *)

\* "".join(row): the cells of one row concatenated, left to right.
RECURSIVE JoinRow(_, _)
JoinRow(row, c) ==
    IF c = BOARD_SIZE THEN "" ELSE row[c] \o JoinRow(row, c + 1)

\* tuple("".join(row) for row in board)
get_state_tuple_on(b) == [i \in 1 .. BOARD_SIZE |-> JoinRow(b[i - 1], 0)]

get_state_tuple == get_state_tuple_on(board)

\* Mutant of Scan: the two loops swapped, so cells come column by column.
Scan_column_major(rlo, rhi, clo, chi) ==
    LET w == chi - clo + 1
        h == rhi - rlo + 1
    IN  IF w <= 0 \/ h <= 0 THEN << >>
        ELSE [i \in 1 .. (h * w) |->
                 <<rlo + ((i - 1) % h), clo + ((i - 1) \div h)>>]

\* The nested loops `for r in range(..): for c in range(..)` over
\* rlo..rhi x clo..chi, as the sequence of (r, c) in the order visited.
Scan(rlo, rhi, clo, chi) ==
    LET w == chi - clo + 1
        h == rhi - rlo + 1
    IN  IF w <= 0 \/ h <= 0 THEN << >>
        ELSE [i \in 1 .. (h * w) |->
                 <<rlo + ((i - 1) \div w), clo + ((i - 1) % w)>>]

\* Mutant of get_valid_moves_on: the inner loop stops one column short.
get_valid_moves_short(b, over) ==
    IF ~over
    THEN SelectSeq(Scan(0, BOARD_SIZE - 1, 0, BOARD_SIZE - 2),
                   LAMBDA m : b[m[1]][m[2]] = " ")
    ELSE << >>

get_valid_moves_on(b, over) ==
    IF ~over
    THEN SelectSeq(Scan(0, BOARD_SIZE - 1, 0, BOARD_SIZE - 1),
                   LAMBDA m : b[m[1]][m[2]] = " ")
    ELSE << >>

get_valid_moves == get_valid_moves_on(board, game_over)

\* Mutant of is_valid_move: the test that the cell is empty is missing.
is_valid_move_any_cell(row, col) ==
    /\ 0 <= row /\ row < BOARD_SIZE
    /\ 0 <= col /\ col < BOARD_SIZE

\* Mutant of is_valid_move: the lower bound on row is strict.
is_valid_move_strict_lower(row, col) ==
    /\ 0 < row /\ row < BOARD_SIZE
    /\ 0 <= col /\ col < BOARD_SIZE
    /\ board[row][col] = " "

\* Mutant of is_valid_move: it also asks that the game is not over.
is_valid_move_unless_over(row, col) ==
    /\ ~ game_over
    /\ 0 <= row /\ row < BOARD_SIZE
    /\ 0 <= col /\ col < BOARD_SIZE
    /\ board[row][col] = " "

is_valid_move(row, col) ==
    /\ 0 <= row /\ row < BOARD_SIZE
    /\ 0 <= col /\ col < BOARD_SIZE
    /\ board[row][col] = " "

\* all(board[r + i*dr][c + i*dc] == player for i in range(win_length))
AllRun(b, player, r, c, dr, dc) ==
    \A i \in range(win_length) : b[r + i * dr][c + i * dc] = player

\* The (r, c) each of the four scans visits, in order.
HorizontalScan == Scan(0, BOARD_SIZE - 1, 0, BOARD_SIZE - win_length)
VerticalScan == Scan(0, BOARD_SIZE - win_length, 0, BOARD_SIZE - 1)
PosDiagScan == Scan(0, BOARD_SIZE - win_length, 0, BOARD_SIZE - win_length)
NegDiagScan == Scan(0, BOARD_SIZE - win_length, win_length - 1, BOARD_SIZE - 1)

SeqToSet(s) == {s[i] : i \in DOMAIN s}

\* Mutant of _check_win: the horizontal scan is missing.
_check_win_no_horizontal(b, player) ==
    \/ \E a \in SeqToSet(VerticalScan) : AllRun(b, player, a[1], a[2], 1, 0)
    \/ \E a \in SeqToSet(PosDiagScan) : AllRun(b, player, a[1], a[2], 1, 1)
    \/ \E a \in SeqToSet(NegDiagScan) : AllRun(b, player, a[1], a[2], 1, -1)

\* Mutant of _check_win: the horizontal scan stops one start column short,
\* so the window that touches the right edge is skipped.
_check_win_edge_skipped(b, player) ==
    \/ \E a \in SeqToSet(Scan(0, BOARD_SIZE - 1, 0, BOARD_SIZE - win_length - 1)) :
          AllRun(b, player, a[1], a[2], 0, 1)
    \/ \E a \in SeqToSet(VerticalScan) : AllRun(b, player, a[1], a[2], 1, 0)
    \/ \E a \in SeqToSet(PosDiagScan) : AllRun(b, player, a[1], a[2], 1, 1)
    \/ \E a \in SeqToSet(NegDiagScan) : AllRun(b, player, a[1], a[2], 1, -1)

\* Mutant of _check_win: the down-left diagonal scan is missing.
_check_win_no_neg_diag(b, player) ==
    \/ \E a \in SeqToSet(HorizontalScan) : AllRun(b, player, a[1], a[2], 0, 1)
    \/ \E a \in SeqToSet(VerticalScan) : AllRun(b, player, a[1], a[2], 1, 0)
    \/ \E a \in SeqToSet(PosDiagScan) : AllRun(b, player, a[1], a[2], 1, 1)

_check_win(b, player) ==
    \/ \E a \in SeqToSet(HorizontalScan) : AllRun(b, player, a[1], a[2], 0, 1)
    \/ \E a \in SeqToSet(VerticalScan) : AllRun(b, player, a[1], a[2], 1, 0)
    \/ \E a \in SeqToSet(PosDiagScan) : AllRun(b, player, a[1], a[2], 1, 1)
    \/ \E a \in SeqToSet(NegDiagScan) : AllRun(b, player, a[1], a[2], 1, -1)

\* Mutant of _is_board_full: the nested loops return False on the first
\* cell, whatever it holds.
_is_board_full_never(b) == FALSE

\* Mutant of _is_board_full: `return True` inside the outer loop, so only
\* row 0 is looked at.
_is_board_full_first_row(b) ==
    ~ \E c \in range(BOARD_SIZE) : b[0][c] = " "

_is_board_full(b) ==
    ~ \E r \in range(BOARD_SIZE) : \E c \in range(BOARD_SIZE) : b[r][c] = " "

\* The anchors of one scan whose window is all `player`, in scan order.
Hits(scan, b, player, dr, dc) ==
    SelectSeq(scan, LAMBDA a : AllRun(b, player, a[1], a[2], dr, dc))

\* Mutant of LineFrom: the end is win_length steps away, one too far.
LineFrom_one_past(a, dr, dc) ==
    <<a, <<a[1] + dr * win_length, a[2] + dc * win_length>>>>

\* (start_pos, end_pos) of the window anchored at a; << >> stands for None.
LineFrom(a, dr, dc) ==
    <<a, <<a[1] + dr * (win_length - 1), a[2] + dc * (win_length - 1)>>>>

\* Mutant of get_winning_line_coords_on: the vertical scan runs first.
get_winning_line_coords_vertical_first(b, w) ==
    IF w = None THEN << >>
    ELSE LET h == Hits(HorizontalScan, b, w, 0, 1)
             v == Hits(VerticalScan, b, w, 1, 0)
             p == Hits(PosDiagScan, b, w, 1, 1)
             n == Hits(NegDiagScan, b, w, 1, -1)
         IN  IF v # << >> THEN LineFrom(Head(v), 1, 0)
             ELSE IF h # << >> THEN LineFrom(Head(h), 0, 1)
             ELSE IF p # << >> THEN LineFrom(Head(p), 1, 1)
             ELSE IF n # << >> THEN LineFrom(Head(n), 1, -1)
             ELSE << >>

get_winning_line_coords_on(b, w) ==
    IF w = None THEN << >>
    ELSE LET h == Hits(HorizontalScan, b, w, 0, 1)
             v == Hits(VerticalScan, b, w, 1, 0)
             p == Hits(PosDiagScan, b, w, 1, 1)
             n == Hits(NegDiagScan, b, w, 1, -1)
         IN  IF h # << >> THEN LineFrom(Head(h), 0, 1)
             ELSE IF v # << >> THEN LineFrom(Head(v), 1, 0)
             ELSE IF p # << >> THEN LineFrom(Head(p), 1, 1)
             ELSE IF n # << >> THEN LineFrom(Head(n), 1, -1)
             ELSE << >>

get_winning_line_coords == get_winning_line_coords_on(board, winner)

-----------------------------------------------------------------------------
(* Operations                                                              *)

\* Mutant of Refused: game_over is not looked at.
Refused_ignoring_game_over(row, col) == ~ is_valid_move(row, col)

\* The guard of make_move: the call is refused.
Refused(row, col) == game_over \/ ~ is_valid_move(row, col)

\* Mutant of OtherPlayer: the test names the wrong marker, so the turn
\* is never passed.
OtherPlayer_stuck(p) == IF p = "O" THEN "O" ELSE "X"

\* "O" if current_player == "X" else "X"
OtherPlayer(p) == IF p = "X" THEN "O" ELSE "X"

\* TicTacToeGame()
EngineInit ==
    /\ board = EmptyBoard
    /\ current_player = "X"
    /\ winner = None
    /\ game_over = FALSE
    /\ win_length \in MinWinLength .. BOARD_SIZE
    /\ last = [op |-> "__init__"]
    /\ accepted = 0

\* The locals of main() before the loop; is_human_turn and ai_move are
\* assigned before they are read.
GuiInit(mode) ==
    /\ game_mode = mode
    /\ is_human_turn = FALSE
    /\ ai_move = << >>
    /\ win_line_start_pos = << >>
    /\ win_line_end_pos = << >>
    /\ animating_win_line = FALSE
    /\ animation_progress = 0
    /\ caller = "none"

\* The engine on its own, driven by any caller.
Init ==
    /\ EngineInit
    /\ GuiInit("none")
    /\ pc = "engine"

\* Mutant of make_move: the full board is tested before the win.
make_move_draw_first(row, col) ==
    /\ UNCHANGED win_length
    /\ IF Refused(row, col)
       THEN /\ last' = [op |-> "make_move", row |-> row, col |-> col,
                        ret |-> FALSE]
            /\ UNCHANGED <<board, current_player, winner, game_over, accepted>>
       ELSE LET b == [board EXCEPT ![row][col] = current_player]
            IN  /\ board' = b
                /\ accepted' = accepted + 1
                /\ last' = [op |-> "make_move", row |-> row, col |-> col,
                            ret |-> TRUE]
                /\ IF _is_board_full(b)
                   THEN /\ winner' = None
                        /\ game_over' = TRUE
                        /\ UNCHANGED current_player
                   ELSE IF _check_win(b, current_player)
                   THEN /\ winner' = current_player
                        /\ game_over' = TRUE
                        /\ UNCHANGED current_player
                   ELSE /\ current_player' = OtherPlayer(current_player)
                        /\ UNCHANGED <<winner, game_over>>

\* Mutant of make_move: the player is switched before the win and draw
\* tests return, so a move that ends the game passes the turn too.
make_move_always_switch(row, col) ==
    /\ UNCHANGED win_length
    /\ IF Refused(row, col)
       THEN /\ last' = [op |-> "make_move", row |-> row, col |-> col,
                        ret |-> FALSE]
            /\ UNCHANGED <<board, current_player, winner, game_over, accepted>>
       ELSE LET b == [board EXCEPT ![row][col] = current_player]
            IN  /\ board' = b
                /\ accepted' = accepted + 1
                /\ last' = [op |-> "make_move", row |-> row, col |-> col,
                            ret |-> TRUE]
                /\ current_player' = OtherPlayer(current_player)
                /\ IF _check_win(b, current_player)
                   THEN /\ winner' = current_player
                        /\ game_over' = TRUE
                   ELSE IF _is_board_full(b)
                   THEN /\ winner' = None
                        /\ game_over' = TRUE
                   ELSE UNCHANGED <<winner, game_over>>

make_move(row, col) ==
    /\ UNCHANGED win_length
    /\ IF Refused(row, col)
       THEN /\ last' = [op |-> "make_move", row |-> row, col |-> col,
                        ret |-> FALSE]
            /\ UNCHANGED <<board, current_player, winner, game_over, accepted>>
       ELSE LET b == [board EXCEPT ![row][col] = current_player]
            IN  /\ board' = b
                /\ accepted' = accepted + 1
                /\ last' = [op |-> "make_move", row |-> row, col |-> col,
                            ret |-> TRUE]
                /\ IF _check_win(b, current_player)
                   THEN /\ winner' = current_player
                        /\ game_over' = TRUE
                        /\ UNCHANGED current_player
                   ELSE IF _is_board_full(b)
                   THEN /\ winner' = None
                        /\ game_over' = TRUE
                        /\ UNCHANGED current_player
                   ELSE /\ current_player' = OtherPlayer(current_player)
                        /\ UNCHANGED <<winner, game_over>>

\* Mutant of reset: the board is cleared, the other fields are kept.
reset_board_only ==
    /\ board' = EmptyBoard
    /\ accepted' = 0
    /\ last' = [op |-> "reset", from |-> <<game_over, winner>>,
                ret |-> get_state_tuple_on(board')]
    /\ UNCHANGED <<current_player, winner, game_over, win_length>>

\* reset(): self.state = GameState(), then the new state's tuple is returned.
\* last.from keeps the game_over and winner the call found.
reset ==
    /\ board' = EmptyBoard
    /\ current_player' = "X"
    /\ winner' = None
    /\ game_over' = FALSE
    /\ accepted' = 0
    /\ last' = [op |-> "reset", from |-> <<game_over, winner>>,
                ret |-> get_state_tuple_on(board')]
    /\ UNCHANGED win_length

\* Mutant of choice: any cell of the board may come back.
choice_any_cell(valid_moves) ==
    SeqToSet(Scan(0, BOARD_SIZE - 1, 0, BOARD_SIZE - 1))

\* What random.choice(valid_moves) may return; << >> stands for None.
choice(valid_moves) == SeqToSet(valid_moves)

\* RandomAIPlayer.get_move(game)
get_move ==
    LET valid_moves == get_valid_moves
    IN  /\ IF valid_moves = << >>
           THEN last' = [op |-> "get_move", ret |-> << >>]
           ELSE \E chosen_move \in choice(valid_moves) :
                    last' = [op |-> "get_move", ret |-> chosen_move]
        /\ UNCHANGED <<board, current_player, winner, game_over,
                       win_length, accepted>>

MakeMoveCall == \E row \in Coords : \E col \in Coords : make_move(row, col)

Next ==
    \/ MakeMoveCall /\ UNCHANGED gui_vars
    \/ reset /\ UNCHANGED gui_vars
    \/ get_move /\ UNCHANGED gui_vars

Spec == Init /\ [][Next]_vars

\* A game played to its end: the engine fresh from TicTacToeGame() or from
\* reset(), then make_move on cells taken from get_valid_moves() and
\* nothing else.  The player keeps moving while a move is there to make.
ResetFrom == {<<FALSE, None>>, <<TRUE, "X">>, <<TRUE, "O">>}

PlayInit ==
    /\ board = EmptyBoard
    /\ current_player = "X"
    /\ winner = None
    /\ game_over = FALSE
    /\ win_length \in MinWinLength .. BOARD_SIZE
    /\ accepted = 0
    /\ \/ last = [op |-> "__init__"]
       \/ \E from \in ResetFrom :
              last = [op |-> "reset", from |-> from,
                      ret |-> get_state_tuple_on(EmptyBoard)]
    /\ GuiInit("none")
    /\ pc = "engine"

PlayValidMove ==
    /\ \E move \in SeqToSet(get_valid_moves) : make_move(move[1], move[2])
    /\ UNCHANGED gui_vars

SpecPlay == PlayInit /\ [][PlayValidMove]_vars /\ WF_vars(PlayValidMove)

-----------------------------------------------------------------------------
(* The main loop of tic_tac_toe_12x12_pygame.py.  One frame is: compute    *)
(* is_human_turn, handle the queued events one by one, let the AI move,    *)
(* draw.  hover_row and hover_col are recomputed every frame and only read *)
(* by the drawing, so they are left out.                                   *)

GRID_WIDTH == BOARD_SIZE * SQUARE_SIZE
GRID_HEIGHT == BOARD_SIZE * SQUARE_SIZE
WIDTH == GRID_WIDTH + MARGIN_LEFT + MARGIN_RIGHT
HEIGHT == GRID_HEIGHT + MARGIN_TOP + MARGIN_BOTTOM

\* The positions event.pos can take: every pixel of the window.
MouseX == 0 .. (WIDTH - 1)
MouseY == 0 .. (HEIGHT - 1)

\* (clicked_row, clicked_col) of a click at (mouseX, mouseY).
ClickedCell(mouseX, mouseY) ==
    IF /\ MARGIN_LEFT < mouseX /\ mouseX < MARGIN_LEFT + GRID_WIDTH
       /\ MARGIN_TOP < mouseY /\ mouseY < MARGIN_TOP + GRID_HEIGHT
    THEN <<(mouseY - MARGIN_TOP) \div SQUARE_SIZE,
           (mouseX - MARGIN_LEFT) \div SQUARE_SIZE>>
    ELSE <<-1, -1>>

\* is_human_turn as the frame computes it.
HumanTurn ==
    game_mode = "pvp" \/ (game_mode = "pve" /\ current_player = "X")

\* After a make_move: if it succeeded and ended the game with a winner,
\* the winning line is fetched and its animation started.
RecordWin ==
    LET coords == get_winning_line_coords_on(board', winner')
    IN  IF last'.ret /\ game_over' /\ winner' # None /\ coords # << >>
        THEN /\ win_line_start_pos' = coords[1]
             /\ win_line_end_pos' = coords[2]
             /\ animating_win_line' = TRUE
             /\ animation_progress' = 0
        ELSE UNCHANGED <<win_line_start_pos, win_line_end_pos,
                         animating_win_line, animation_progress>>

GuiStart ==
    /\ EngineInit
    /\ \E mode \in {"pvp", "pve"} : GuiInit(mode)
    /\ pc = "frame"

FrameStart ==
    /\ pc = "frame"
    /\ is_human_turn' = HumanTurn
    /\ pc' = "events"
    /\ UNCHANGED <<engine_vars, game_mode, ai_move, win_line_start_pos,
                   win_line_end_pos, animating_win_line, animation_progress,
                   caller>>

\* event.type == pygame.QUIT: sys.exit() ends the process, and nothing of
\* its state is left; the one state "exit" stands for that.
Quit ==
    /\ pc = "events"
    /\ pc' = "exit"
    /\ board' = EmptyBoard
    /\ current_player' = "X"
    /\ winner' = None
    /\ game_over' = FALSE
    /\ last' = [op |-> "exit"]
    /\ accepted' = 0
    /\ is_human_turn' = FALSE
    /\ ai_move' = << >>
    /\ win_line_start_pos' = << >>
    /\ win_line_end_pos' = << >>
    /\ animating_win_line' = FALSE
    /\ animation_progress' = 0
    /\ caller' = "none"
    /\ UNCHANGED <<win_length, game_mode>>

\* event.type == pygame.MOUSEBUTTONDOWN at event.pos = (mouseX, mouseY)
MouseButtonDown(mouseX, mouseY) ==
    /\ pc = "events"
    /\ UNCHANGED <<game_mode, pc, is_human_turn, ai_move>>
    /\ LET cell == ClickedCell(mouseX, mouseY)
       IN  IF /\ ~ game_over /\ is_human_turn
              /\ 0 <= cell[1] /\ cell[1] < BOARD_SIZE
              /\ 0 <= cell[2] /\ cell[2] < BOARD_SIZE
           THEN /\ make_move(cell[1], cell[2])
                /\ caller' = "click"
                /\ RecordWin
           ELSE UNCHANGED <<engine_vars, win_line_start_pos,
                            win_line_end_pos, animating_win_line,
                            animation_progress, caller>>

\* Mutant of KeyR: the engine is reset, the winning line of the finished
\* game is kept.
KeyR_keeping_win_line ==
    /\ pc = "events"
    /\ reset
    /\ caller' = "key_r"
    /\ UNCHANGED <<game_mode, pc, is_human_turn, ai_move, win_line_start_pos,
                   win_line_end_pos, animating_win_line, animation_progress>>

\* event.type == pygame.KEYDOWN with event.key == pygame.K_r
KeyR ==
    /\ pc = "events"
    /\ reset
    /\ caller' = "key_r"
    /\ win_line_start_pos' = << >>
    /\ win_line_end_pos' = << >>
    /\ animating_win_line' = FALSE
    /\ animation_progress' = 0
    /\ UNCHANGED <<game_mode, pc, is_human_turn, ai_move>>

\* pygame.event.get() is exhausted.
EventsDone ==
    /\ pc = "events"
    /\ pc' = "ai"
    /\ UNCHANGED <<engine_vars, game_mode, is_human_turn, ai_move,
                   win_line_start_pos, win_line_end_pos, animating_win_line,
                   animation_progress, caller>>

\* Mutant of AiToMove: the test of game_over is missing.
AiToMove_ignoring_game_over ==
    game_mode = "pve" /\ current_player = "O"

\* The test that guards the AI turn; ai_player is set exactly in pve mode.
AiToMove ==
    game_mode = "pve" /\ current_player = "O" /\ ~ game_over

\* ai_move = ai_player.get_move(game), or the AI turn is skipped.
AiTurn ==
    /\ pc = "ai"
    /\ IF AiToMove
       THEN /\ get_move
            /\ ai_move' = last'.ret
            /\ caller' = "ai"
            /\ pc' = "ai_move"
       ELSE /\ pc' = "draw"
            /\ UNCHANGED <<engine_vars, ai_move, caller>>
    /\ UNCHANGED <<game_mode, is_human_turn, win_line_start_pos,
                   win_line_end_pos, animating_win_line, animation_progress>>

\* if ai_move: game.make_move(ai_move[0], ai_move[1]) ... else: print(...)
\* ai_move is not read again before the next get_move assigns it, so the
\* model forgets it here.
AiMove ==
    /\ pc = "ai_move"
    /\ pc' = "draw"
    /\ IF ai_move # << >>
       THEN /\ make_move(ai_move[1], ai_move[2])
            /\ RecordWin
       ELSE UNCHANGED <<engine_vars, win_line_start_pos, win_line_end_pos,
                        animating_win_line, animation_progress>>
    /\ ai_move' = << >>
    /\ UNCHANGED <<game_mode, is_human_turn, caller>>

\* The drawing phase: the only state it changes is the animation's.
Draw ==
    /\ pc = "draw"
    /\ pc' = "frame"
    /\ IF animating_win_line
       THEN /\ animation_progress' = animation_progress + 1
            /\ animating_win_line' = ~ (animation_progress' >= AnimationFrames)
       ELSE UNCHANGED <<animating_win_line, animation_progress>>
    /\ UNCHANGED <<engine_vars, game_mode, is_human_turn, ai_move,
                   win_line_start_pos, win_line_end_pos, caller>>

MouseEvent == \E mouseX \in MouseX : \E mouseY \in MouseY :
                  MouseButtonDown(mouseX, mouseY)

GuiNext ==
    \/ FrameStart
    \/ Quit
    \/ MouseEvent
    \/ KeyR
    \/ EventsDone
    \/ AiTurn
    \/ AiMove
    \/ Draw

SpecGui == GuiStart /\ [][GuiNext]_vars

-----------------------------------------------------------------------------
(* What the claims speak of, stated on the board alone and independently   *)
(* of the scans above.                                                     *)

\* The four orientations as (row step, column step).
Directions == {<<0, 1>>, <<1, 0>>, <<1, 1>>, <<1, -1>>}

InBoard(r, c) == r \in range(BOARD_SIZE) /\ c \in range(BOARD_SIZE)

\* The win_length cells from (r, c) along d are on the board and all p.
RunAt(p, r, c, d) ==
    \A i \in range(win_length) :
        /\ InBoard(r + i * d[1], c + i * d[2])
        /\ board[r + i * d[1]][c + i * d[2]] = p

HasRun(p) ==
    \E r \in range(BOARD_SIZE) : \E c \in range(BOARD_SIZE) :
        \E d \in Directions : RunAt(p, r, c, d)

EmptyCells ==
    {m \in range(BOARD_SIZE) \X range(BOARD_SIZE) : board[m[1]][m[2]] = " "}

BoardFull == EmptyCells = {}

OccupiedCount == BOARD_SIZE * BOARD_SIZE - Cardinality(EmptyCells)

\* The step was a call of make_move / the value it returned.
MoveCalled == last'.op = "make_move"
MoveReturned(v) == last'.op = "make_move" /\ last'.ret = v

-----------------------------------------------------------------------------
\* C1: in every reachable state game_over is true exactly when some player
\* has a run of win_length equal markers in one of the four orientations or
\* the board has no empty cell.
C1_GameOverIffRunOrFull ==
    game_over <=> ((\E p \in Player : HasRun(p)) \/ BoardFull)

\* A game won while empty cells remain.
C1_Witness ==
    /\ game_over
    /\ HasRun("O")
    /\ ~ BoardFull
    /\ last.op = "make_move"

\* C2: winner is a player p exactly when p has a run of win_length markers;
\* the two players never both have a run; a full board with no run is over
\* with winner None.
C2_WinnerIffRun ==
    /\ \A p \in Player : (winner = p) <=> HasRun(p)
    /\ ~ (HasRun("X") /\ HasRun("O"))
    /\ (BoardFull /\ ~ HasRun("X") /\ ~ HasRun("O"))
           => (game_over /\ winner = None)

\* A draw: the last cell was played and nobody has a run.
C2_Witness ==
    /\ BoardFull
    /\ ~ HasRun("X") /\ ~ HasRun("O")
    /\ game_over /\ winner = None
    /\ last.op = "make_move" /\ last.ret = TRUE

\* C3 as stated: current_player changes only in a make_move call that
\* returns True and leaves game_over false, and then it flips; a rejected
\* make_move, a make_move that ends the game and every call made while
\* game_over is true leave it unchanged.
C3_Original ==
    [][ /\ (current_player' # current_player)
              => (MoveReturned(TRUE) /\ ~ game_over')
        /\ (MoveReturned(TRUE) /\ ~ game_over')
              => current_player' \in Player \ {current_player}
        /\ (MoveReturned(FALSE) \/ (MoveCalled /\ game_over'))
              => current_player' = current_player
        /\ game_over => current_player' = current_player ]_vars

\* C3 (amended): current_player changes only in a make_move call that
\* returns True and leaves game_over false, where it flips to the other
\* marker, or in a reset call, which sets it to X; a rejected make_move, a
\* make_move that ends the game and every make_move call made while
\* game_over is true leave it unchanged.
C3_TurnChangesOnlyOnContinuingMoveOrReset ==
    [][ /\ (current_player' # current_player)
              => \/ MoveReturned(TRUE) /\ ~ game_over'
                 \/ last'.op = "reset" /\ current_player' = "X"
        /\ (MoveReturned(TRUE) /\ ~ game_over')
              => current_player' \in Player \ {current_player}
        /\ (MoveReturned(FALSE) \/ (MoveCalled /\ game_over'))
              => current_player' = current_player
        /\ (game_over /\ MoveCalled)
              => current_player' = current_player ]_vars

\* An accepted move that did not end the game has passed the turn.
C3_Witness ==
    /\ last.op = "make_move" /\ last.ret = TRUE
    /\ ~ game_over
    /\ board[last.row][last.col] = "X"
    /\ current_player = "O"

\* C4: make_move on an occupied cell, or on coordinates outside
\* [0, BOARD_SIZE) (negative ones included), returns False and leaves board,
\* current_player, winner and game_over unchanged.
C4_BadCellRejected ==
    [][ (MoveCalled /\ (~ InBoard(last'.row, last'.col)
                          \/ board[last'.row][last'.col] # " "))
            => /\ last'.ret = FALSE
               /\ UNCHANGED <<board, current_player, winner, game_over>> ]_vars

\* A move on an occupied cell was refused while the game was in progress.
C4_Witness ==
    /\ last.op = "make_move" /\ last.ret = FALSE
    /\ ~ game_over
    /\ InBoard(last.row, last.col)
    /\ board[last.row][last.col] # " "

\* C5: once game_over is true every make_move, for any coordinates, returns
\* False and leaves board, winner, current_player and game_over unchanged;
\* only reset leads to a state with game_over false.
C5_TerminalAbsorbing ==
    [][ game_over =>
          /\ MoveCalled =>
                /\ last'.ret = FALSE
                /\ UNCHANGED <<board, current_player, winner, game_over>>
          /\ (~ game_over') => last'.op = "reset" ]_vars

\* A move on an empty in-bounds cell was refused because the game is over.
C5_Witness ==
    /\ game_over
    /\ last.op = "make_move" /\ last.ret = FALSE
    /\ InBoard(last.row, last.col)
    /\ board[last.row][last.col] = " "

\* C6: while game_over is false, make_move on any (row, col) of
\* get_valid_moves() returns True and puts the pre-call current_player's
\* marker on that cell, changing no other cell.
C6_ValidMoveAccepted ==
    [][ (~ game_over /\ MoveCalled
           /\ <<last'.row, last'.col>> \in SeqToSet(get_valid_moves))
          => /\ last'.ret = TRUE
             /\ \A r \in range(BOARD_SIZE) : \A c \in range(BOARD_SIZE) :
                  board'[r][c] = IF <<r, c>> = <<last'.row, last'.col>>
                                 THEN current_player
                                 ELSE board[r][c] ]_vars

\* An accepted move that filled the board without a run (the draw branch).
C6_Witness ==
    /\ last.op = "make_move" /\ last.ret = TRUE
    /\ game_over /\ winner = None
    /\ board[last.row][last.col] = current_player

\* C7: while the game is not over get_valid_moves() is exactly the empty
\* cells, without duplicates, by row ascending then column ascending; when
\* the game is over it is the empty list, even if empty cells remain.
C7_ValidMovesRowMajor ==
    LET m == get_valid_moves
    IN  IF game_over THEN m = << >>
        ELSE /\ SeqToSet(m) = EmptyCells
             /\ \A i \in DOMAIN m : \A j \in DOMAIN m :
                  (i < j) => \/ m[i][1] < m[j][1]
                             \/ m[i][1] = m[j][1] /\ m[i][2] < m[j][2]

\* A game in progress with moves played and empty cells in several rows.
C7_Witness ==
    /\ ~ game_over
    /\ last.op = "make_move" /\ last.ret = TRUE
    /\ OccupiedCount >= 3
    /\ \E m \in EmptyCells : \E n \in EmptyCells : m[1] < n[1] /\ m[2] > n[2]

\* C8 as stated: in every reachable state, in progress or over, the length
\* of get_valid_moves() plus the number of occupied cells is
\* BOARD_SIZE * BOARD_SIZE.
C8_Original ==
    Len(get_valid_moves) + OccupiedCount = BOARD_SIZE * BOARD_SIZE

\* C8 (amended): in every reachable state that is in progress or whose
\* board is full, the length of get_valid_moves() plus the number of
\* occupied cells is BOARD_SIZE * BOARD_SIZE; in a state that is over with
\* empty cells left the list is empty and the sum is smaller.
C8_MovesPlusOccupied ==
    IF game_over /\ ~ BoardFull
    THEN /\ Len(get_valid_moves) = 0
         /\ Len(get_valid_moves) + OccupiedCount < BOARD_SIZE * BOARD_SIZE
    ELSE Len(get_valid_moves) + OccupiedCount = BOARD_SIZE * BOARD_SIZE

\* A game in progress with a single empty cell left.
C8_Witness ==
    /\ ~ game_over
    /\ last.op = "make_move" /\ last.ret = TRUE
    /\ OccupiedCount = BOARD_SIZE * BOARD_SIZE - 1
    /\ Len(get_valid_moves) = 1

\* C9: get_winning_line_coords() is None when winner is None; when winner is
\* a player it is a pair (start, end) of cells on the board, win_length - 1
\* steps apart along one of the four orientations, and each of the
\* win_length cells from start to end holds the winner's marker.
C9_WinningLineIsWinnersRun ==
    LET L == get_winning_line_coords
    IN  IF winner = None THEN L = << >>
        ELSE /\ Len(L) = 2
             /\ InBoard(L[1][1], L[1][2])
             /\ InBoard(L[2][1], L[2][2])
             /\ \E d \in Directions :
                  /\ L[2] = <<L[1][1] + (win_length - 1) * d[1],
                              L[1][2] + (win_length - 1) * d[2]>>
                  /\ \A i \in range(win_length) :
                       board[L[1][1] + i * d[1]][L[1][2] + i * d[2]] = winner

\* A win whose reported line runs down-left.
C9_Witness ==
    /\ winner # None
    /\ last.op = "make_move" /\ last.ret = TRUE
    /\ Len(get_winning_line_coords) = 2
    /\ get_winning_line_coords[2][2] < get_winning_line_coords[1][2]

\* Position of an orientation in the scan order: horizontal, vertical,
\* down-right, down-left.
Rank(d) ==
    CASE d = <<0, 1>> -> 1
      [] d = <<1, 0>> -> 2
      [] d = <<1, 1>> -> 3
      [] d = <<1, -1>> -> 4

\* Every window <<d, r, c>> (orientation, anchor cell) that is a run of p.
RunsOf(p) ==
    {w \in Directions \X range(BOARD_SIZE) \X range(BOARD_SIZE) :
        RunAt(p, w[2], w[3], w[1])}

\* w1 comes before w2: by orientation, then anchor row, then anchor column.
Before(w1, w2) ==
    \/ Rank(w1[1]) < Rank(w2[1])
    \/ Rank(w1[1]) = Rank(w2[1]) /\ w1[2] < w2[2]
    \/ Rank(w1[1]) = Rank(w2[1]) /\ w1[2] = w2[2] /\ w1[3] < w2[3]

LineOf(w) ==
    <<<<w[2], w[3]>>,
      <<w[2] + (win_length - 1) * w[1][1], w[3] + (win_length - 1) * w[1][2]>>>>

\* C10: with a winner set, get_winning_line_coords() is the winner's run
\* that comes first in the scan order: horizontal runs by row then start
\* column, then vertical runs, then down-right, then down-left diagonals,
\* each by anchor cell in row-major order; so a horizontal run is reported
\* in preference to any vertical or diagonal one.
C10_FirstRunInScanOrder ==
    (winner # None) =>
        /\ \E w \in RunsOf(winner) :
             /\ LineOf(w) = get_winning_line_coords
             /\ \A v \in RunsOf(winner) : ~ Before(v, w)
        /\ (\E w \in RunsOf(winner) : w[1] = <<0, 1>>)
             => get_winning_line_coords[1][1] = get_winning_line_coords[2][1]

\* The winning move completed a horizontal and a vertical run at once.
C10_Witness ==
    /\ winner # None
    /\ last.op = "make_move" /\ last.ret = TRUE
    /\ \E w \in RunsOf(winner) : w[1] = <<0, 1>>
    /\ \E w \in RunsOf(winner) : w[1] = <<1, 0>>

\* C11: right after a make_move(row, col) that returned True and set a
\* winner, the cell (row, col) just played is one of the win_length cells
\* between the start and the end that get_winning_line_coords() returns.
C11_LineHoldsPlayedCell ==
    (last.op = "make_move" /\ last.ret = TRUE /\ winner # None) =>
        LET L == get_winning_line_coords
        IN  /\ Len(L) = 2
            /\ \E d \in Directions : \E i \in range(win_length) :
                 /\ L[2] = <<L[1][1] + (win_length - 1) * d[1],
                             L[1][2] + (win_length - 1) * d[2]>>
                 /\ <<last.row, last.col>> =
                        <<L[1][1] + i * d[1], L[1][2] + i * d[2]>>

\* A win whose last move is neither end of the reported line.
C11_Witness ==
    /\ last.op = "make_move" /\ last.ret = TRUE /\ winner # None
    /\ Len(get_winning_line_coords) = 2
    /\ <<last.row, last.col>> # get_winning_line_coords[1]
    /\ <<last.row, last.col>> # get_winning_line_coords[2]

\* A string of n blanks.
RECURSIVE Blanks(_)
Blanks(n) == IF n = 0 THEN "" ELSE " " \o Blanks(n - 1)

\* C12: reset(), called in any state (in progress, won or drawn), leaves the
\* engine as a freshly constructed one: every cell empty, current_player X,
\* winner None, game_over false; the tuple it returns is that of the
\* all-empty board.
C12_ResetIsFresh ==
    (last.op = "reset") =>
        /\ \A r \in range(BOARD_SIZE) : \A c \in range(BOARD_SIZE) :
             board[r][c] = " "
        /\ current_player = "X"
        /\ winner = None
        /\ game_over = FALSE
        /\ last.ret = [i \in 1 .. BOARD_SIZE |-> Blanks(BOARD_SIZE)]

\* reset was called on a game that O had won.
C12_Witness ==
    /\ last.op = "reset"
    /\ last.from = <<TRUE, "O">>

\* C13: is_valid_move(row, col) is true exactly when 0 <= row < BOARD_SIZE,
\* 0 <= col < BOARD_SIZE and the cell is empty, whatever game_over is: in a
\* won state every empty cell has is_valid_move true, while
\* get_valid_moves() is empty and no make_move on it returns True.
C13_IsValidMoveIgnoresGameOver ==
    /\ \A row \in Coords : \A col \in Coords :
         is_valid_move(row, col) <=>
            (/\ 0 <= row /\ row < BOARD_SIZE
             /\ 0 <= col /\ col < BOARD_SIZE
             /\ (<<row, col>> \in EmptyCells))
    /\ (game_over /\ winner # None) =>
         \A m \in EmptyCells :
            /\ is_valid_move(m[1], m[2])
            /\ get_valid_moves = << >>
            /\ ~ ENABLED (make_move(m[1], m[2]) /\ last'.ret = TRUE)
            /\ ENABLED (make_move(m[1], m[2]) /\ last'.ret = FALSE)

\* A won game with an empty cell left.
C13_Witness ==
    /\ game_over /\ winner # None
    /\ \E m \in EmptyCells : is_valid_move(m[1], m[2])
    /\ get_valid_moves = << >>

\* C14: get_move returns one element of get_valid_moves() when that list is
\* not empty and None when it is empty, and changes nothing of the game.
C14_GetMovePicksValidMove ==
    [][ (last'.op = "get_move") =>
          /\ UNCHANGED <<board, current_player, winner, game_over>>
          /\ IF Len(get_valid_moves) = 0
             THEN last'.ret = << >>
             ELSE \E i \in DOMAIN get_valid_moves :
                     last'.ret = get_valid_moves[i] ]_vars

\* get_move answered with a move in the middle of a game.
C14_Witness ==
    /\ last.op = "get_move"
    /\ last.ret # << >>
    /\ ~ game_over
    /\ accepted >= 2
    /\ board[last.ret[1]][last.ret[2]] = " "

\* C17: _check_win(player) is true exactly when some orientation and some
\* starting cell give win_length consecutive cells, all on the board and
\* all holding player's marker; no window at a board edge is skipped and a
\* run longer than win_length counts.
C17_CheckWinIffRun ==
    \A p \in Player : _check_win(board, p) <=> HasRun(p)

\* A whole row of the winner, longer than win_length and touching both edges.
C17_Witness ==
    /\ winner # None
    /\ win_length < BOARD_SIZE
    /\ _check_win(board, winner)
    /\ \E r \in range(BOARD_SIZE) : \A c \in range(BOARD_SIZE) :
         board[r][c] = winner

\* C18: a make_move that fills the last empty cell and completes a run for
\* the mover ends the game with winner = the mover; a board-filling move
\* gives winner = None only when it completes no run for the mover.
C18_WinBeforeDraw ==
    (last.op = "make_move" /\ last.ret = TRUE /\ BoardFull) =>
        LET mover == board[last.row][last.col]
        IN  /\ game_over
            /\ HasRun(mover) => winner = mover
            /\ (winner = None) => ~ HasRun(mover)

\* The move on the last empty cell won the game.
C18_Witness ==
    /\ last.op = "make_move" /\ last.ret = TRUE
    /\ BoardFull
    /\ winner = board[last.row][last.col]

CountOf(p) ==
    Cardinality({m \in range(BOARD_SIZE) \X range(BOARD_SIZE) :
                    board[m[1]][m[2]] = p})

\* C19: the number of X minus the number of O is 0 or 1; while the game is
\* not over current_player is X exactly when the counts are equal and O
\* exactly when X has one more; the occupied cells are as many as the
\* make_move calls that returned True since the last reset.
C19_CountsAndTurn ==
    /\ CountOf("X") - CountOf("O") \in {0, 1}
    /\ (~ game_over) =>
         /\ (current_player = "X") <=> (CountOf("X") = CountOf("O"))
         /\ (current_player = "O") <=> (CountOf("X") = CountOf("O") + 1)
    /\ OccupiedCount = accepted

\* O to move after several accepted moves.
C19_Witness ==
    /\ ~ game_over
    /\ current_player = "O"
    /\ accepted >= 3
    /\ CountOf("X") = CountOf("O") + 1

\* C20: when game_over is true current_player is the player who made the
\* final move, and a winner, if there is one, is current_player.
C20_OverKeepsFinalMover ==
    game_over =>
        /\ (winner # None) => winner = current_player
        /\ current_player = IF CountOf("X") > CountOf("O") THEN "X" ELSE "O"
        /\ (last.op = "make_move" /\ last.ret = TRUE)
              => board[last.row][last.col] = current_player

\* O made the final move and won.
C20_Witness ==
    /\ game_over
    /\ last.op = "make_move" /\ last.ret = TRUE
    /\ winner = "O" /\ current_player = "O"
    /\ board[last.row][last.col] = "O"

\* C15: in the main loop the AI's get_move is called only in pve mode
\* with game_over false and current_player O, so it is never called on a
\* finished game, the list it reads is not empty, and the move it returns
\* is accepted by make_move.
C15_AiAskedOnlyOnItsTurn ==
    /\ (last.op = "get_move") =>
          /\ pc = "ai_move"
          /\ game_mode = "pve"
          /\ ~ game_over
          /\ current_player = "O"
          /\ Len(get_valid_moves) > 0
          /\ ai_move \in SeqToSet(get_valid_moves)
    /\ (caller = "ai" /\ last.op = "make_move") => last.ret = TRUE

\* The AI's move was accepted in the middle of a game.
C15_Witness ==
    /\ caller = "ai"
    /\ last.op = "make_move" /\ last.ret = TRUE
    /\ board[last.row][last.col] = "O"
    /\ accepted >= 4

\* C16: in pve mode a click is handled only on the human's turn: whatever
\* events arrive, several mouse-button events in one frame included, every
\* marker the click handler places is X, so every O was placed by the AI.
C16_ClickHandlerPlacesOnlyX ==
    (game_mode = "pve" /\ caller = "click"
       /\ last.op = "make_move" /\ last.ret = TRUE)
        => board[last.row][last.col] = "X"

\* C21: every game terminates.  From a fresh or reset state, with moves
\* taken from get_valid_moves() applied as long as there is one and no
\* reset, game_over eventually becomes true; it does so after at most
\* BOARD_SIZE * BOARD_SIZE accepted moves, every one of them accepted; and
\* while game_over is false get_valid_moves() is not empty.
C21_EveryGameTerminates ==
    /\ <> game_over
    /\ [] (accepted <= BOARD_SIZE * BOARD_SIZE)
    /\ [] (accepted = BOARD_SIZE * BOARD_SIZE => game_over)
    /\ [] (last.op = "make_move" => last.ret = TRUE)
    /\ [] (~ game_over => get_valid_moves # << >>)

\* A game that took every cell of the board to end.
C21_Witness ==
    /\ game_over
    /\ accepted = BOARD_SIZE * BOARD_SIZE
    /\ last.op = "make_move" /\ last.ret = TRUE
    /\ winner = None

\* C22: at every drawing phase of the main loop, whatever clicks, AI moves
\* and R presses came before, win_line_start_pos and win_line_end_pos are
\* set exactly when the engine records a winner, and then they are the two
\* ends get_winning_line_coords() returns; while there is no winner no
\* animation runs; and right after a reset the endpoints and the animation
\* are cleared together with the engine state.
C22_WinLineMatchesEngine ==
    /\ (pc = "draw") =>
          /\ (win_line_start_pos # << >>) <=> (winner # None)
          /\ (win_line_end_pos # << >>) <=> (winner # None)
          /\ (winner # None) =>
                <<win_line_start_pos, win_line_end_pos>>
                    = get_winning_line_coords
          /\ (winner = None) => ~ animating_win_line
    /\ (last.op = "reset") =>
          /\ win_line_start_pos = << >>
          /\ win_line_end_pos = << >>
          /\ ~ animating_win_line
          /\ winner = None /\ ~ game_over /\ board = EmptyBoard

\* The drawing phase of a frame in which the AI has just won: the line is
\* stored and its animation is about to start.
C22_Witness ==
    /\ pc = "draw"
    /\ caller = "ai" /\ last.op = "make_move" /\ last.ret = TRUE
    /\ winner = "O"
    /\ <<win_line_start_pos, win_line_end_pos>> = get_winning_line_coords
    /\ animating_win_line /\ animation_progress = 0

=============================================================================
